---- MODULE Spec2Model ----
(***************************************************************************)
(* bigiq_utility_license_assignment: one run of the module, from main()    *)
(* through ModuleManager.exec_module(), against a BIG-IQ whose answer to   *)
(* every request is an input of the run.  One action per request the code  *)
(* issues (each property read of offering_id / member_id /                 *)
(* device_reference is a fresh GET) and one per request-free decision.     *)
(***************************************************************************)
EXTENDS Naturals, Sequences, FiniteSets, TLC

\* ------------------------------------------------------------------ bounds
\* The request counters saturate at these values (n stands for "n or more").
MaxGets == 3
MaxPolls == 4

\* --------------------------------------------------------------- constants
\* while count < 3
LicensedNeeded == 3

None == "None"
\* a task argument that the playbook leaves out (no key in module.params
\* while AnsibleModule validates; None afterwards)
Omitted == "omitted"

\* device: one sample per format the code distinguishes
Devices == {"10.0.0.1", "bigip1.foo.com", "7141a063-7cf8-423f-9829-9d40599fa3e0"}

\* response['code'] values the remote may answer with
Codes == {200, 202, 404, 500}
Ok == {200, 201, 202}
\* response['contents']['items'] of the filtered queries (at most one item:
\* the code reads items[0] only)
OfferingItems == {<<>>, <<"o1">>}
DeviceItems == {<<>>, <<"d1">>}
MemberItems == {<<>>, <<"m1">>, <<"m2">>}
\* response['contents']['status'] of a member
Statuses == {"LICENSED", "PENDING"}

Ctxs == {"initial", "created", "removed"}

VARIABLES
    \* module.params / module.check_mode
    state, check_mode, managed, device_username, device_password, device,
    \* position in the run, which exists() call is running, the result
    pc, ctx, changed, err,
    \* locals: member id formatted into the uri, count of the poll loop,
    \* keys of self.changes
    member, count, changes,
    \* requests issued so far and what they carried / were answered
    gets, posts, deletes, polls, pollLog, postBody, postCode, deleteTarget,
    lookup, getCode, firstOffering, resp, badResp, sentNone

params == <<state, check_mode, managed, device_username, device_password, device>>
control == <<pc, ctx, changed, err>>
locals == <<member, count, changes>>
requests == <<gets, posts, deletes, polls, pollLog, postBody, postCode, deleteTarget,
              lookup, getCode, firstOffering, resp, badResp, sentNone>>
vars == <<params, control, locals, requests>>

Inc(n, max) == IF n < max THEN n + 1 ELSE n

\* the last n elements of s
LastN(s, n) == IF Len(s) <= n THEN s ELSE SubSeq(s, Len(s) - n + 1, Len(s))

\* ------------------------------------------------------------- parameters
\* module.params[k] once AnsibleModule has filled the defaults in
Val(x) == IF x = Omitted THEN None ELSE x

\* python truth of want.managed (None and False are falsy)
Truthy(m) == m = "yes"

is_valid_ip(d) == d = "10.0.0.1"

device_is_address == is_valid_ip(device)

device_is_id == device = "7141a063-7cf8-423f-9829-9d40599fa3e0"

device_is_name == ~device_is_address /\ ~device_is_id

returnables ==
    {"device_address", "device_reference", "device_username", "device_password",
     "device_port", "managed", "unit_of_measure"}

api_attributes ==
    {"deviceReference", "deviceAddress", "httpsPort", "managed", "unitOfMeasure"}

api_map(a) ==
    CASE a = "deviceReference" -> "device_reference"
      [] a = "deviceAddress" -> "device_address"
      [] a = "httpsPort" -> "device_port"
      [] a = "unitOfMeasure" -> "unit_of_measure"
      [] OTHER -> a

\* getattr(self.want, key) is not None, for the keys of returnables.
\* device_port and unit_of_measure carry their defaults (443, 'hourly');
\* device_reference is read only once its lookup has answered.
WantIsSet(key) ==
    CASE key = "device_address" -> device_is_address
      [] key = "device_reference" -> Truthy(managed)
      [] key = "device_username" -> Val(device_username) # None
      [] key = "device_password" -> Val(device_password) # None
      [] key = "device_port" -> TRUE
      [] key = "managed" -> Val(managed) # None
      [] key = "unit_of_measure" -> TRUE

\* keys of the dict handed to Changes(params=changed)
set_changed_options == {key \in returnables : WantIsSet(key)}

\* AnsibleF5Parameters.api_params(): every api attribute whose mapped value
\* is not None.  self.changes is a plain Changes, so the value is the stored
\* one: the UsableChanges properties are not consulted.
api_params(ch) == {a \in api_attributes : api_map(a) \in ch}

\* the class the change set was meant to be read through
UsableChanges(ch) ==
    {a \in api_params(ch) :
        CASE a = "deviceReference" -> Truthy(managed)
          [] a \in {"deviceAddress", "httpsPort"} -> ~Truthy(managed)
          [] a = "managed" -> FALSE
          [] OTHER -> TRUE}

\* data of the POST
create_params ==
    api_params(changes) \cup
        (IF ~Truthy(managed) THEN {"username", "password"} ELSE {})

\* required_if of the argument spec, as AnsibleModule applies it: a listed
\* argument is missing when the task has no key for it
required_if ==
    /\ state = "present" => managed # Omitted
    /\ managed = "no" => device_username # Omitted /\ device_password # Omitted

\* ---------------------------------------------------------------- control
Ctl(p, c, ch, e) == pc' = p /\ ctx' = c /\ changed' = ch /\ err' = e

Goto(p) == Ctl(p, ctx, changed, err)

\* raise F5ModuleError(e) (or any other exception): main() fails the run
Raise(e) == Ctl("failed", ctx, changed, e)

\* exec_module returns result with changed=b
Return(b) == Ctl("done", ctx, b, err)

\* self.exists() is entered from context c
CallExists(c) == Ctl("ex_none_off", c, changed, err)

\* create(): _set_changed_options reads want.device_reference twice when
\* the device is managed (the None test, then the value)
EnterCreate ==
    IF Truthy(managed)
    THEN Goto("cr_ref1") /\ UNCHANGED changes
    ELSE Goto("cr_check") /\ changes' = set_changed_options

EnterRemove ==
    IF Truthy(managed)
    THEN Goto("rm_ref1") /\ UNCHANGED changes
    ELSE Goto("rm_check") /\ changes' = set_changed_options

\* present() without its exists() test
present_always_creates(b) == EnterCreate

\* absent() with its test negated
absent_inverted(b) == IF b THEN Return(FALSE) /\ UNCHANGED changes ELSE EnterRemove

\* ModuleManager.present, given the result of exists()
present(b) == IF b THEN Return(FALSE) /\ UNCHANGED changes ELSE EnterCreate

\* ModuleManager.absent, given the result of exists()
absent(b) == IF b THEN EnterRemove ELSE Return(FALSE) /\ UNCHANGED changes

\* remove() without the check that follows remove_from_device
removed_unverified(b) == Return(TRUE) /\ UNCHANGED changes

\* ModuleManager.create after create_on_device, given the result of exists()
created(b) ==
    /\ IF b THEN Goto("w_off") ELSE Raise("Failed to license the remote device.")
    /\ UNCHANGED changes

\* ModuleManager.remove after remove_from_device, given the result of exists()
removed(b) ==
    /\ IF b THEN Raise("Failed to delete the resource.") ELSE Return(TRUE)
    /\ UNCHANGED changes

\* exists() returns b to the caller that ctx names
ExistsReturns(b) ==
    CASE ctx = "initial" /\ state = "present" -> present(b)
      [] ctx = "initial" /\ state = "absent" -> absent(b)
      [] ctx = "created" -> created(b)
      [] ctx = "removed" -> removed(b)

\* ---------------------------------------------------------------- requests
\* a response the claim of failing fast covers: not 2xx, and not a 404
\* answering a lookup
Bad(code, isLookup) == code \notin Ok /\ ~(code = 404 /\ isLookup)

\* bookkeeping of one GET of a collection or of a member
Get(code) ==
    /\ gets' = Inc(gets, MaxGets)
    /\ badResp' = (badResp \/ Bad(code, TRUE))
    /\ UNCHANGED <<posts, deletes, postBody, postCode, deleteTarget>>

OfferingSteps ==
    {"ex_none_off", "ex_uri_off", "ex_uri_mid_off", "cod_off", "w_off",
     "w_mid_off", "rfd_off", "rfd_mid_off", "rfd_id_off"}

AfterOffering(p) ==
    CASE p = "ex_none_off" -> "ex_none_mem"
      [] p = "ex_uri_off" -> "ex_uri_mid_off"
      [] p = "ex_uri_mid_off" -> "ex_uri_mid_mem"
      [] p = "cod_off" -> "cod_post"
      [] p = "w_off" -> "w_mid_off"
      [] p = "w_mid_off" -> "w_mid_mem"
      [] p = "rfd_off" -> "rfd_mid_off"
      [] p = "rfd_mid_off" -> "rfd_mid_mem"
      [] p = "rfd_id_off" -> "rfd_id_mem"

MemberSteps == {"ex_none_mem", "ex_uri_mid_mem", "w_mid_mem", "rfd_mid_mem", "rfd_id_mem"}

DeviceSteps == {"cr_ref1", "cr_ref2", "rm_ref1", "rm_ref2"}

Init ==
    /\ state \in {"present", "absent"}
    /\ check_mode \in BOOLEAN
    /\ managed \in {Omitted, None, "yes", "no"}
    /\ device_username \in {Omitted, None, "admin"}
    /\ device_password \in {Omitted, None, "secret"}
    /\ device \in Devices
    /\ pc = "main"
    /\ ctx = "initial"
    /\ changed = FALSE
    /\ err = None
    /\ member = None
    /\ count = 0
    /\ changes = {}
    /\ gets = 0
    /\ posts = 0
    /\ deletes = 0
    /\ polls = 0
    /\ pollLog = <<>>
    /\ postBody = {}
    /\ postCode = 0
    /\ deleteTarget = "unset"
    /\ lookup = [c \in Ctxs |-> "unset"]
    /\ getCode = [c \in Ctxs |-> 0]
    /\ firstOffering = "unset"
    /\ resp = [kind |-> "none", code |-> 0, total |-> 0]
    /\ badResp = FALSE
    /\ sentNone = FALSE

\* main(): AnsibleModule validates the arguments, then exec_module starts
\* present() or absent(), both of which call exists() first
main ==
    /\ pc = "main"
    /\ IF required_if THEN CallExists("initial") ELSE Raise("required_if")
    /\ UNCHANGED <<params, locals, requests>>

\* offering_id without the test for an empty result
offering_id_unchecked ==
    /\ pc \in OfferingSteps
    /\ \E code \in Codes, items \in OfferingItems :
        /\ Get(code)
        /\ resp' = [kind |-> "offering", code |-> code, total |-> Len(items)]
        /\ firstOffering' =
               IF firstOffering # "unset" THEN firstOffering
               ELSE IF code = 200 /\ Len(items) = 0 THEN "empty" ELSE "other"
        /\ IF code \notin Ok THEN Raise("contents")
           ELSE IF Len(items) = 0 THEN Raise("IndexError")
           ELSE Goto(AfterOffering(pc))
    /\ UNCHANGED <<params, locals, polls, pollLog, lookup, getCode, sentNone>>

\* ModuleParameters.offering_id: GET .../offerings?$filter=(name+eq+'..')&$top=1
offering_id ==
    /\ pc \in OfferingSteps
    /\ \E code \in Codes, items \in OfferingItems :
        /\ Get(code)
        /\ resp' = [kind |-> "offering", code |-> code, total |-> Len(items)]
        /\ firstOffering' =
               IF firstOffering # "unset" THEN firstOffering
               ELSE IF code = 200 /\ Len(items) = 0 THEN "empty" ELSE "other"
        /\ IF code \notin Ok THEN Raise("contents")
           ELSE IF code = 200 /\ Len(items) = 0
                THEN Raise("No offering with the specified name was found.")
           ELSE IF Len(items) = 0 THEN Raise("IndexError")
           ELSE Goto(AfterOffering(pc))
    /\ UNCHANGED <<params, locals, polls, pollLog, lookup, getCode, sentNone>>

\* ModuleParameters.member_id, after its offering_id: GET .../members/?$filter=..
\* The result goes to the reader: the None test of exists(), the uri of
\* exists() / wait_for_device_to_be_licensed() / remove_from_device(), or
\* params['id'] of remove_from_device().
member_id ==
    /\ pc \in MemberSteps
    /\ \E code \in Codes, items \in MemberItems :
        LET result == IF Len(items) = 0 THEN None ELSE items[1] IN
        /\ Get(code)
        /\ resp' = [kind |-> "member", code |-> code, total |-> Len(items)]
        /\ IF code \notin Ok
           THEN Raise("contents") /\ UNCHANGED <<locals, lookup>>
           ELSE IF code # 200 /\ Len(items) = 0
           THEN Raise("IndexError") /\ UNCHANGED <<locals, lookup>>
           ELSE CASE pc = "ex_none_mem" ->
                       /\ lookup' = [lookup EXCEPT ![ctx] = result]
                       /\ IF result = None
                          THEN ExistsReturns(FALSE)
                          ELSE Goto("ex_uri_off") /\ UNCHANGED changes
                       /\ UNCHANGED <<member, count>>
                  [] pc = "ex_uri_mid_mem" ->
                       /\ member' = result
                       /\ Goto("ex_get")
                       /\ UNCHANGED <<count, changes, lookup>>
                  [] pc = "w_mid_mem" ->
                       /\ member' = result
                       /\ count' = 0
                       /\ Goto("w_poll")
                       /\ UNCHANGED <<changes, lookup>>
                  [] pc = "rfd_mid_mem" ->
                       /\ member' = result
                       /\ Goto(IF ~Truthy(managed) THEN "rfd_id_off" ELSE "rfd_delete")
                       /\ UNCHANGED <<count, changes, lookup>>
                  [] pc = "rfd_id_mem" ->
                       /\ Goto("rfd_delete")
                       /\ UNCHANGED <<locals, lookup>>
    /\ UNCHANGED <<params, polls, pollLog, getCode, firstOffering, sentNone>>

\* ModuleParameters.device_reference of a managed device:
\* GET .../cm-bigip-allBigIpDevices/devices/?$filter=..&$top=1
device_reference ==
    /\ pc \in DeviceSteps
    /\ \E code \in Codes, items \in DeviceItems :
        /\ Get(code)
        /\ resp' = [kind |-> "device", code |-> code, total |-> Len(items)]
        /\ IF code \notin Ok
           THEN Raise("contents") /\ UNCHANGED changes
           ELSE IF code = 200 /\ Len(items) = 0
           THEN Raise("No device with the specified address was found.")
                /\ UNCHANGED changes
           ELSE IF Len(items) = 0
           THEN Raise("IndexError") /\ UNCHANGED changes
           ELSE CASE pc = "cr_ref1" -> Goto("cr_ref2") /\ UNCHANGED changes
                  [] pc = "cr_ref2" -> Goto("cr_check") /\ changes' = set_changed_options
                  [] pc = "rm_ref1" -> Goto("rm_ref2") /\ UNCHANGED changes
                  [] pc = "rm_ref2" -> Goto("rm_check") /\ changes' = set_changed_options
    /\ UNCHANGED <<params, member, count, polls, pollLog, lookup, getCode,
                   firstOffering, sentNone>>

\* exists() without the test for 404
exists_without_404 ==
    /\ pc = "ex_get"
    /\ \E code \in Codes :
        /\ Get(code)
        /\ resp' = [kind |-> "get", code |-> code, total |-> 0]
        /\ getCode' = [getCode EXCEPT ![ctx] = code]
        /\ sentNone' = (sentNone \/ member = None)
        /\ IF code \notin Ok THEN Raise("contents") /\ UNCHANGED changes
           ELSE ExistsReturns(TRUE)
    /\ UNCHANGED <<params, member, count, polls, pollLog, lookup, firstOffering>>

\* ModuleManager.exists, the GET of .../members/{member_id}
exists ==
    /\ pc = "ex_get"
    /\ \E code \in Codes :
        /\ Get(code)
        /\ resp' = [kind |-> "get", code |-> code, total |-> 0]
        /\ getCode' = [getCode EXCEPT ![ctx] = code]
        /\ sentNone' = (sentNone \/ member = None)
        /\ IF code = 404 THEN ExistsReturns(FALSE)
           ELSE IF code \notin Ok THEN Raise("contents") /\ UNCHANGED changes
           ELSE ExistsReturns(TRUE)
    /\ UNCHANGED <<params, member, count, polls, pollLog, lookup, firstOffering>>

\* create() without the credential checks
create_without_validation ==
    /\ pc = "cr_check"
    /\ IF check_mode THEN Return(TRUE) ELSE Goto("cod_off")
    /\ UNCHANGED <<params, locals, requests>>

\* create() without its check-mode return
create_ignores_check_mode ==
    /\ pc = "cr_check"
    /\ IF ~Truthy(managed) /\ Val(device_username) = None
       THEN Raise("You must specify a 'device_username' when working with unmanaged devices.")
       ELSE IF ~Truthy(managed) /\ Val(device_password) = None
       THEN Raise("You must specify a 'device_password' when working with unmanaged devices.")
       ELSE Goto("cod_off")
    /\ UNCHANGED <<params, locals, requests>>

\* ModuleManager.create after _set_changed_options: the credentials of an
\* unmanaged device, then check mode
create ==
    /\ pc = "cr_check"
    /\ IF ~Truthy(managed) /\ Val(device_username) = None
       THEN Raise("You must specify a 'device_username' when working with unmanaged devices.")
       ELSE IF ~Truthy(managed) /\ Val(device_password) = None
       THEN Raise("You must specify a 'device_password' when working with unmanaged devices.")
       ELSE IF check_mode THEN Return(TRUE)
       ELSE Goto("cod_off")
    /\ UNCHANGED <<params, locals, requests>>

\* ModuleManager.create_on_device, the POST to .../members/
create_on_device ==
    /\ pc = "cod_post"
    /\ \E code \in Codes :
        /\ posts' = posts + 1
        /\ postBody' = create_params
        /\ postCode' = code
        /\ resp' = [kind |-> "post", code |-> code, total |-> 0]
        /\ badResp' = (badResp \/ Bad(code, FALSE))
        /\ IF code \notin Ok THEN Raise("contents") ELSE CallExists("created")
    /\ UNCHANGED <<params, locals, gets, deletes, polls, pollLog, deleteTarget,
                   lookup, getCode, firstOffering, sentNone>>

\* the poll loop without the reset of count on a status other than LICENSED
wait_without_reset ==
    /\ pc = "w_poll"
    /\ \E code \in Codes, status \in Statuses :
        /\ gets' = Inc(gets, MaxGets)
        /\ polls' = Inc(polls, MaxPolls)
        /\ resp' = [kind |-> "poll", code |-> code, total |-> 0]
        /\ badResp' = (badResp \/ Bad(code, FALSE))
        /\ sentNone' = (sentNone \/ member = None)
        /\ IF code \notin Ok
           THEN Raise("contents") /\ UNCHANGED <<count, pollLog>>
           ELSE LET c == IF status = "LICENSED" THEN count + 1 ELSE count IN
                /\ count' = c
                /\ pollLog' = LastN(Append(pollLog, status), LicensedNeeded)
                /\ IF c < LicensedNeeded THEN Goto("w_poll") ELSE Return(TRUE)
    /\ UNCHANGED <<params, member, changes, posts, deletes, postBody, postCode,
                   deleteTarget, lookup, getCode, firstOffering>>

\* ModuleManager.wait_for_device_to_be_licensed, one turn of the while loop
wait_for_device_to_be_licensed ==
    /\ pc = "w_poll"
    /\ \E code \in Codes, status \in Statuses :
        /\ gets' = Inc(gets, MaxGets)
        /\ polls' = Inc(polls, MaxPolls)
        /\ resp' = [kind |-> "poll", code |-> code, total |-> 0]
        /\ badResp' = (badResp \/ Bad(code, FALSE))
        /\ sentNone' = (sentNone \/ member = None)
        /\ IF code \notin Ok
           THEN Raise("contents") /\ UNCHANGED <<count, pollLog>>
           ELSE LET c == IF status = "LICENSED" THEN count + 1 ELSE 0 IN
                /\ count' = c
                /\ pollLog' = LastN(Append(pollLog, status), LicensedNeeded)
                /\ IF c < LicensedNeeded THEN Goto("w_poll") ELSE Return(TRUE)
    /\ UNCHANGED <<params, member, changes, posts, deletes, postBody, postCode, deleteTarget,
                   lookup, getCode, firstOffering>>

\* remove() that goes to its existence check without remove_from_device
remove_without_delete ==
    /\ pc = "rm_check"
    /\ IF check_mode THEN Return(TRUE) ELSE CallExists("removed")
    /\ UNCHANGED <<params, locals, requests>>

\* ModuleManager.remove after _set_changed_options: check mode
remove ==
    /\ pc = "rm_check"
    /\ IF check_mode THEN Return(TRUE) ELSE Goto("rfd_off")
    /\ UNCHANGED <<params, locals, requests>>

\* ModuleManager.remove_from_device, the DELETE of .../members/{member_id};
\* its response is not looked at, and remove() goes on to exists()
remove_from_device ==
    /\ pc = "rfd_delete"
    /\ \E code \in Codes :
        /\ deletes' = deletes + 1
        /\ deleteTarget' = member
        /\ resp' = [kind |-> "delete", code |-> code, total |-> 0]
        /\ badResp' = (badResp \/ Bad(code, FALSE))
        /\ sentNone' = (sentNone \/ member = None)
        /\ CallExists("removed")
    /\ UNCHANGED <<params, locals, gets, posts, polls, pollLog, postBody, postCode,
                   lookup, getCode, firstOffering>>

Next ==
    \/ main
    \/ offering_id
    \/ member_id
    \/ device_reference
    \/ exists
    \/ create
    \/ create_on_device
    \/ wait_for_device_to_be_licensed
    \/ remove
    \/ remove_from_device

Spec == Init /\ [][Next]_vars

\* the run is one thread that always takes its next step
FairSpec == Spec /\ WF_vars(Next)

TypeOK ==
    /\ pc \in {"main", "done", "failed", "ex_get", "cr_check", "cod_post",
                "w_poll", "rm_check", "rfd_delete"}
                \cup OfferingSteps \cup MemberSteps \cup DeviceSteps
    /\ ctx \in Ctxs
    /\ changed \in BOOLEAN
    /\ count \in 0..LicensedNeeded
    /\ posts \in 0..1
    /\ deletes \in 0..1

\* ------------------------------------------------------------------ claims
MemberIds == {"m1", "m2"}

\* the first exists() of the run was answered "assigned": its member query
\* returned an id and the GET of the member returned 2xx
InitiallyAssigned == lookup["initial"] \in MemberIds /\ getCode["initial"] \in Ok

\* the first exists() of the run was answered "not assigned": its member
\* query returned no item, or the GET of the member returned 404
InitiallyUnassigned == lookup["initial"] = None \/ getCode["initial"] = 404

\* C1: a state=present run whose existence check finds the assignment (the
\* member query returns an id and the GET of the member returns 2xx) ends
\* there with changed=False, and has issued no POST and no DELETE.
C1_PresentIdempotent ==
    (state = "present" /\ InitiallyAssigned) =>
        /\ pc = "done"
        /\ changed = FALSE
        /\ posts = 0
        /\ deletes = 0

C1_Witness ==
    /\ state = "present"
    /\ ~check_mode
    /\ InitiallyAssigned
    /\ pc = "done"
    /\ changed = FALSE

\* C2: a state=absent run whose existence check finds no assignment (the
\* member query returns zero items, or the GET of the member returns 404)
\* ends there with changed=False, and has issued no DELETE and no POST.
C2_AbsentIdempotent ==
    (state = "absent" /\ InitiallyUnassigned) =>
        /\ pc = "done"
        /\ changed = FALSE
        /\ posts = 0
        /\ deletes = 0

C2_Witness ==
    /\ state = "absent"
    /\ ~check_mode
    /\ lookup["initial"] \in MemberIds
    /\ getCode["initial"] = 404
    /\ pc = "done"
    /\ changed = FALSE

\* C3: in check mode no POST and no DELETE is ever issued, the run never
\* reaches create_on_device or remove_from_device, and a run that got
\* through create() or remove() returns changed=True.
C3_CheckModeNeverMutates ==
    check_mode =>
        /\ posts = 0
        /\ deletes = 0
        /\ pc \notin {"cod_off", "cod_post", "rfd_off", "rfd_mid_off", "rfd_mid_mem",
                       "rfd_id_off", "rfd_id_mem", "rfd_delete", "w_off", "w_mid_off",
                       "w_mid_mem", "w_poll"}
        /\ (pc = "done" /\ changes # {}) => changed = TRUE

C3_Witness ==
    /\ check_mode
    /\ state = "absent"
    /\ pc = "done"
    /\ changes # {}
    /\ changed = TRUE
    /\ posts = 0
    /\ deletes = 0

\* C4: the licensing poll is bounded, so every run terminates, by returning
\* or by raising, whatever statuses the remote reports.
C4_PollTerminates == <>(pc \in {"done", "failed"})

\* the exists() that follows the POST / the DELETE was answered "assigned"
FoundAfter(c) == lookup[c] \in MemberIds /\ getCode[c] \in Ok

\* ... or "not assigned"
AbsentAfter(c) == lookup[c] = None \/ getCode[c] = 404

\* C5: a state=present run outside check mode returns changed=True only
\* after one POST answered 2xx, then an existence check that found the
\* member, then status polls the last three of which read LICENSED; the
\* existence check starts only after the POST and the polls only after
\* the check.  When that check finds no member the run raises 'Failed to
\* license the remote device.' and no status poll is issued.
C5_CreateOrdering ==
    /\ lookup["created"] # "unset" => (posts = 1 /\ postCode \in Ok)
    /\ polls > 0 => FoundAfter("created")
    /\ (pc = "done" /\ state = "present" /\ ~check_mode /\ changed) =>
            /\ posts = 1
            /\ postCode \in Ok
            /\ FoundAfter("created")
            /\ polls >= LicensedNeeded
            /\ pollLog = <<"LICENSED", "LICENSED", "LICENSED">>
    /\ (ctx = "created" /\ AbsentAfter("created")) =>
            /\ pc = "failed"
            /\ err = "Failed to license the remote device."
            /\ polls = 0

\* a successful create whose poll saw a status other than LICENSED first
C5_Witness ==
    /\ pc = "done"
    /\ state = "present"
    /\ ~check_mode
    /\ changed
    /\ polls > LicensedNeeded
    /\ pollLog = <<"LICENSED", "LICENSED", "LICENSED">>

C7_FailFast == badResp => (pc = "failed" /\ err = "contents")

EmptyOffering == resp.kind = "offering" /\ resp.code = 200 /\ resp.total = 0

\* C8 as stated: an offering lookup answered 200 with totalItems 0 fails
\* the run with 'No offering with the specified name was found.', and no
\* POST or DELETE is issued in that run.
C8_UnknownOfferingNoMutation ==
    EmptyOffering =>
        /\ pc = "failed"
        /\ err = "No offering with the specified name was found."
        /\ posts = 0
        /\ deletes = 0

\* C8 amended: an offering lookup answered 200 with totalItems 0 fails the
\* run at once with 'No offering with the specified name was found.', for
\* either state; no request follows it, and when it is the first offering
\* lookup of the run no POST or DELETE is issued in the run at all.
C8_UnknownOfferingFails ==
    /\ EmptyOffering =>
            /\ pc = "failed"
            /\ err = "No offering with the specified name was found."
            /\ firstOffering = "empty" => (posts = 0 /\ deletes = 0 /\ gets = 1)
    /\ err = "No offering with the specified name was found." => EmptyOffering

C8_Witness ==
    /\ EmptyOffering
    /\ firstOffering = "empty"
    /\ state = "absent"
    /\ pc = "failed"
    /\ err = "No offering with the specified name was found."

MustSpecify ==
    {"You must specify a 'device_username' when working with unmanaged devices.",
     "You must specify a 'device_password' when working with unmanaged devices."}

CredentialsMissing == Val(device_username) = None \/ Val(device_password) = None

\* C9 as stated: the 'You must specify a ...' error of an unmanaged
\* state=present run is raised before any GET, POST or DELETE.
C9_ValidationBeforeNetwork ==
    err \in MustSpecify => (gets = 0 /\ posts = 0 /\ deletes = 0)

\* C9 amended: the 'You must specify a ...' error is raised only in a
\* state=present run for an unmanaged device with a credential missing,
\* after the existence check (an offering lookup and a member lookup at
\* the least) found no assignment and before any POST or DELETE; such a
\* run never issues a POST or DELETE.  Only the required_if rejection of
\* the arguments comes before every request.
C9_ValidationBeforeMutation ==
    /\ err \in MustSpecify =>
            /\ state = "present"
            /\ ~Truthy(managed)
            /\ CredentialsMissing
            /\ InitiallyUnassigned
            /\ gets >= 2
            /\ posts = 0
            /\ deletes = 0
    /\ (state = "present" /\ ~Truthy(managed) /\ CredentialsMissing) =>
            (posts = 0 /\ deletes = 0)
    /\ err = "required_if" => (gets = 0 /\ posts = 0 /\ deletes = 0)

C9_Witness ==
    /\ err \in MustSpecify
    /\ pc = "failed"
    /\ managed = "no"
    /\ gets >= 2

UnmanagedFields == {"deviceAddress", "httpsPort", "username", "password"}

\* C10: the body of the POST carries exactly one field group: for a managed
\* device deviceReference and none of deviceAddress, httpsPort, username,
\* password; for an unmanaged device those four and no deviceReference;
\* whatever the format of the device.
C10_FieldGroupsExclusive ==
    posts = 1 =>
        IF Truthy(managed)
        THEN "deviceReference" \in postBody /\ postBody \cap UnmanagedFields = {}
        ELSE UnmanagedFields \subseteq postBody /\ "deviceReference" \notin postBody

\* the last response answered a member lookup of the exists() that ctx
\* names (the GET of the member has not been answered yet) ...
MemberQueryInExists == resp.kind = "member" /\ getCode[ctx] = 0

\* ... and signalled absence: a 404, or an empty result set
AbsenceSignalled ==
    \/ MemberQueryInExists /\ resp.code = 404
    \/ MemberQueryInExists /\ resp.code \in Ok /\ resp.total = 0
    \/ resp.kind = "get" /\ resp.code = 404

\* C11 as stated: absence signalled to exists() by an empty result set or
\* by a 404 on either member lookup (the filtered query, the GET by id)
\* never makes exists() raise its F5ModuleError.
C11_AbsenceNeverRaises ==
    AbsenceSignalled => ~(pc = "failed" /\ err = "contents")

\* the step on which exists() returns False to the caller that ctx names
ExistsReturnedFalse ==
    CASE ctx = "initial" /\ state = "present" ->
            pc' \in {"cr_ref1", "cr_check"} /\ err' = None
      [] ctx = "initial" /\ state = "absent" ->
            pc' = "done" /\ changed' = FALSE /\ err' = None
      [] ctx = "created" ->
            pc' = "failed" /\ err' = "Failed to license the remote device."
      [] ctx = "removed" ->
            pc' = "done" /\ changed' = TRUE /\ err' = None

C11_Step ==
    /\ (pc = "ex_none_mem" /\ resp'.code = 200 /\ resp'.total = 0) => ExistsReturnedFalse
    /\ (pc = "ex_get" /\ resp'.code = 404) => ExistsReturnedFalse
    /\ (pc \in {"ex_none_mem", "ex_uri_mid_mem"} /\ resp'.code = 404) =>
            (pc' = "failed" /\ err' = "contents")

\* C11 amended: with the offering resolved, exists() returns False without
\* raising when its first filtered member query is answered 200 with
\* totalItems 0, and when the GET of the member by id is answered 404; a 404
\* on the filtered member query raises F5ModuleError with the response body.
C11_AbsenceIsNotAnError == [][C11_Step]_vars

C11_Witness ==
    /\ state = "absent"
    /\ getCode["initial"] = 404
    /\ pc = "done"
    /\ changed = FALSE
    /\ err = None

\* C12: a run that returns changed=False has issued no POST and no DELETE;
\* a run outside check mode that returns changed=True has issued exactly
\* one mutating request: one POST and no DELETE for state=present, one
\* DELETE and no POST for state=absent.
C12_MutationsMatchResult ==
    /\ (pc = "done" /\ ~changed) => (posts = 0 /\ deletes = 0)
    /\ (pc = "done" /\ changed /\ ~check_mode /\ state = "present") =>
            (posts = 1 /\ deletes = 0)
    /\ (pc = "done" /\ changed /\ ~check_mode /\ state = "absent") =>
            (deletes = 1 /\ posts = 0)

C12_Witness ==
    /\ pc = "done"
    /\ changed
    /\ ~check_mode
    /\ state = "absent"
    /\ deletes = 1
    /\ posts = 0

\* C13: no request addressed to a member uri (the GET of exists(), the
\* status poll, the DELETE) is ever formatted with None in place of a
\* member id, whatever the successive member lookups of the run return.
C13_MemberUriNeverNone == ~sentNone
====
